---- MODULE Spec2Model ----
(***************************************************************************)
(* Model of run_query (src/src/api_client.rs), the match-correlation       *)
(* engine of playedtogether, together with the helpers it calls            *)
(* (UserFacingRegion::to_log_string in src/src/cli.rs, Display for RiotId  *)
(* in src/src/riot_id.rs).                                                 *)
(*                                                                         *)
(* run_query is an async function: it runs from one `.await` to the next.  *)
(* Each action below is the code between two consecutive suspension        *)
(* points: it consumes the response of the outstanding remote call, runs   *)
(* the code up to the next call (or the return) and issues that call.      *)
(*                                                                         *)
(* Conventions.  Strings the code takes apart or builds (match ids, links, *)
(* riot ids) are sequences of one-character strings.  Option<T> is a       *)
(* sequence of length at most one: None is << >>, Some(x) is <<x>>.  A     *)
(* Result<Option<T>, E> returned by the remote API is a record             *)
(* [kind, val] with kind "Err", "None" or "Some".                          *)
(***************************************************************************)
EXTENDS Integers, Sequences, FiniteSets, TLC

\* ------------------------------------------------------------------ bounds

\* Longest match window the remote API returns in the model.
MaxWindow == 2

\* Largest number of participant records in one match record.
MaxParticipants == 2

\* Longest text handed to RiotId::from_str.
MaxLen == 4

\* ------------------------------------------------------------ input domains

None == << >>

Some(x) == <<x>>

\* Match ids the window fetch may return: the spec's example "EUW1_12345",
\* an id without the separator and an id with two separators.
MatchIdPool ==
    { <<"E","U","W","1","_","1","2","3","4","5">>,
      <<"N","A","1">>,
      <<"A","_","1","_","2">> }

\* Player handles (puuids) that occur in the remote API's answers.
Puuids == {"pA", "pB"}

\* Handles the account lookups may return for player 1 and for player 2
\* (the two riot ids may name the same account).
Account1Puuids == {"pA"}

Account2Puuids == {"pA", "pB"}

\* The variants of enum UserFacingRegion, by name.
UserFacingRegion ==
    { <<"B","R">>, <<"E","U","N","E">>, <<"E","U","W">>, <<"J","P">>,
      <<"K","R">>, <<"L","A","N">>, <<"L","A","S">>, <<"M","E">>,
      <<"N","A">>, <<"O","C","E">>, <<"R","U">>, <<"S","E","A">>,
      <<"T","R">>, <<"T","W">>, <<"V","N">> }

\* The (user_selected_region, regional_route, number_of_matches) arguments
\* explored by the model: no region selected, with the route of either
\* default, and a selected region with its route; no match-count limit and
\* two limits.  (The count is only passed on to the window request.)
Arguments ==
    { [user_selected_region |-> None, regional_route |-> "EUROPE",
       number_of_matches |-> None],
      [user_selected_region |-> None, regional_route |-> "AMERICAS",
       number_of_matches |-> Some(1)],
      [user_selected_region |-> Some(<<"E","U","W">>),
       regional_route |-> "EUROPE", number_of_matches |-> Some(2)] }

\* The two identities handed to run_query.
Player1RiotId == [game_name |-> <<"A","l">>, tag_line |-> <<"1">>]

Player2RiotId == [game_name |-> <<"B","o">>, tag_line |-> <<"2">>]

\* Sequences over S of length at most n.
SeqUpTo(S, n) == UNION { [1..k -> S] : k \in 0..n }

\* A participant record (riven Participant), projected to the two fields
\* run_query branches on.  champion_name, team_position, kills, deaths and
\* assists are copied to the output unchanged and are left out.
ParticipantRecords == [puuid : Puuids, win : BOOLEAN]

\* A match record (riven Match.info), projected to its participants.
MatchRecords == [participants : SeqUpTo(ParticipantRecords, MaxParticipants)]

\* ------------------------------------------------------------- remote API

Err == [kind |-> "Err", val |-> None]

Absent == [kind |-> "None", val |-> None]

Present(x) == [kind |-> "Some", val |-> Some(x)]

\* Responses of account_v1().get_by_riot_id for the two players.
Account1Responses == {Err, Absent} \cup { Present(p) : p \in Account1Puuids }

Account2Responses == {Err, Absent} \cup { Present(p) : p \in Account2Puuids }

\* Responses of match_v5().get_match_ids_by_puuid: an error or a window.
MatchIdsResponses ==
    {Err} \cup { Present(w) : w \in SeqUpTo(MatchIdPool, MaxWindow) }

\* Responses of match_v5().get_match.
MatchResponses == {Err, Absent} \cup { Present(m) : m \in MatchRecords }

\* ---------------------------------------------------------- pure helpers

\* The two fields written in the wrong order.
DisplayTagFirst(riot_id) == riot_id.tag_line \o <<"#">> \o riot_id.game_name

\* impl Display for RiotId: "{game_name}#{tag_line}".
Display(riot_id) == riot_id.game_name \o <<"#">> \o riot_id.tag_line

\* UserFacingRegion::to_log_string.
to_log_string(r) ==
    CASE r = <<"B","R">> -> <<"b","r">>
      [] r = <<"E","U","N","E">> -> <<"e","u","n","e">>
      [] r = <<"E","U","W">> -> <<"e","u","w">>
      [] r = <<"J","P">> -> <<"j","p">>
      [] r = <<"K","R">> -> <<"k","r">>
      [] r = <<"L","A","N">> -> <<"l","a","n">>
      [] r = <<"L","A","S">> -> <<"l","a","s">>
      [] r = <<"M","E">> -> <<"m","e">>
      [] r = <<"N","A">> -> <<"n","a">>
      [] r = <<"O","C","E">> -> <<"o","c","e">>
      [] r = <<"R","U">> -> <<"r","u">>
      [] r = <<"S","E","A">> -> <<"s","e","a">>
      [] r = <<"T","R">> -> <<"t","r">>
      [] r = <<"T","W">> -> <<"t","w">>
      [] r = <<"V","N">> -> <<"v","n">>

\* str::split_once scanning from position i: the text before and after the
\* first '_' at or after i, or None when there is none.
RECURSIVE SplitFrom(_, _)
SplitFrom(s, i) ==
    IF i > Len(s) THEN None
    ELSE IF s[i] = "_"
         THEN Some(<<SubSeq(s, 1, i - 1), SubSeq(s, i + 1, Len(s))>>)
         ELSE SplitFrom(s, i + 1)

\* str::rsplit_once: the split at the last '_'.
RECURSIVE RSplitFrom(_, _)
RSplitFrom(s, i) ==
    IF i < 1 THEN None
    ELSE IF s[i] = "_"
         THEN Some(<<SubSeq(s, 1, i - 1), SubSeq(s, i + 1, Len(s))>>)
         ELSE RSplitFrom(s, i - 1)

rsplit_once(s) == RSplitFrom(s, Len(s))

\* match_id_str.split_once('_').
split_once(s) == SplitFrom(s, 1)

\* The literal "https://www.leagueofgraphs.com/match/".
LogBaseUrl ==
    <<"h","t","t","p","s",":","/","/","w","w","w",".","l","e","a","g","u",
      "e","o","f","g","r","a","p","h","s",".","c","o","m","/","m","a","t",
      "c","h","/">>

\* The link of one match: None unless the id splits at '_'.
league_of_graphs_link(match_id_str, region) ==
    LET parts == split_once(match_id_str)
        log_region == IF region # None THEN to_log_string(region[1])
                      ELSE <<"e","u","n","e">>
    IN  IF parts # None
        THEN Some(LogBaseUrl \o log_region \o <<"/">> \o parts[1][2])
        ELSE None

\* The handle set of a match record.
participants_puuids(info) ==
    { info.participants[i].puuid : i \in DOMAIN info.participants }

\* The co-occurrence test, with player 1's handle in place of player 2's.
contains_player1(info, p1, p2) == p1 \in participants_puuids(info)

\* The co-occurrence test: player 2's handle is in the match's handle set.
contains_player2(info, p1, p2) == p2 \in participants_puuids(info)

\* info.participants.iter().find(|p| p.puuid == puuid): the first record
\* with that handle.
find(participants, puuid) ==
    LET hits == { i \in DOMAIN participants : participants[i].puuid = puuid }
    IN  IF hits = {} THEN None
        ELSE Some(participants[CHOOSE i \in hits : \A j \in hits : i <= j])

\* if p.win { "Victory" } else { "Defeat" }.
outcome(win) == IF win THEN "Victory" ELSE "Defeat"

\* The ParticipantDetails projection of a participant record.
ParticipantDetails(p_data) == [outcome |-> outcome(p_data.win)]

\* The MatchDetails value built for one co-occurring match.
MatchDetails(match_id_str, link, p1_data, p2_data) ==
    [match_id |-> match_id_str,
     league_of_graphs_link |-> link,
     player1_details |-> ParticipantDetails(p1_data),
     player2_details |-> ParticipantDetails(p2_data)]

\* Vec::insert(0, x).
push_front(v, x) == <<x>> \o v

\* Vec::push.
push(v, x) == Append(v, x)

\* ------------------------------------------------------------------ state

VARIABLES
    pc,                       \* the suspension point run_query is at
    user_selected_region,     \* argument: Option<UserFacingRegion>
    regional_route,           \* argument: RegionalRoute
    number_of_matches,        \* argument: Option<i32>
    puuid1,                   \* Option: player 1's handle once resolved
    puuid2,                   \* Option: player 2's handle once resolved
    match_ids,                \* the fetched window
    idx,                      \* window position of match_id_str
    checked_matches_count,
    found_together_count,
    player1_games_won_count,
    found_matches_details,
    result,                   \* Option: the value run_query returned
    calls,                    \* remote calls issued so far, in order
    answers,                  \* kinds of the answers to the two lookups
                              \* and to the window fetch, in order
    fetched,                  \* what each completed get_match call returned
    input,                    \* the text handed to RiotId::from_str
    parsed,                   \* Option: what from_str returned for it
    formatted                 \* Option: the parsed RiotId, formatted

\* The state of the RiotId parser, which run_query does not touch.
parse_vars == <<input, parsed, formatted>>

vars ==
    <<pc, user_selected_region, regional_route, number_of_matches, puuid1,
      puuid2, match_ids, idx, checked_matches_count, found_together_count,
      player1_games_won_count, found_matches_details, result, calls, answers,
      fetched, parse_vars>>

\* The loop-carried locals the body of the for loop updates.
Locals ==
    [found_together_count |-> found_together_count,
     player1_games_won_count |-> player1_games_won_count,
     found_matches_details |-> found_matches_details]

\* A remote call, as the remote side sees it.
Call(op, arg) == [op |-> op, arg |-> arg]

\* The arguments of get_match_ids_by_puuid: the handle and the count, passed
\* as given.
MatchIdsRequest(puuid) == [puuid |-> puuid, count |-> number_of_matches]

\* What the log keeps of a get_match response: its kind and, for a match
\* record, the handles that occur in it and, of those, the handles whose
\* participant record (the first one, should a handle occur twice) has the
\* win flag set.
Logged(resp) ==
    LET ps == resp.val[1].participants
    IN  [kind |-> resp.kind,
         puuids |-> IF resp.kind = "Some"
                    THEN { p \in Puuids :
                             \E i \in DOMAIN ps : ps[i].puuid = p }
                    ELSE {},
         winners |-> IF resp.kind = "Some"
                     THEN { p \in Puuids :
                              \E i \in DOMAIN ps :
                                 /\ ps[i].puuid = p
                                 /\ ps[i].win
                                 /\ \A j \in 1..(i - 1) : ps[j].puuid # p }
                     ELSE {}]

\* ----------------------------------------------------------- return values

\* The error a `?` propagates from a failed remote call.
RiotApiError ==
    [kind |-> "RiotApiError", player |-> 0, riot_id |-> << >>,
     regional_route |-> ""]

\* The not-found message, naming player 1 whichever lookup failed.
NotFoundErrorPlayer1(player, riot_id, route) ==
    [kind |-> "NotFound", player |-> 1, riot_id |-> Display(riot_id),
     regional_route |-> route]

\* "Error: Player {n} Riot ID '{}' not found on regional route '{:?}'. ..."
NotFoundError(player, riot_id, route) ==
    [kind |-> "NotFound", player |-> player, riot_id |-> Display(riot_id),
     regional_route |-> route]

ReturnErr(e) == Some([ok |-> FALSE, error |-> Some(e), output |-> None])

ReturnOk(o) == Some([ok |-> TRUE, error |-> None, output |-> Some(o)])

\* The OverallOutput built after the loop.
OverallOutput(route, checked, c) ==
    [query_summary |->
        [player1 |-> Player1RiotId,
         player2 |-> Player2RiotId,
         regional_route |-> route,
         checked_matches_count |-> checked,
         matches_played_together_count |-> c.found_together_count,
         player1_wins_together_count |-> c.player1_games_won_count,
         player1_puuid_found |-> TRUE,
         player2_puuid_found |-> TRUE],
     found_matches |-> c.found_matches_details]

\* ------------------------------------------------------------- loop body

\* The counters and the result list left as they are.
InitialCountersCarried ==
    [checked_matches_count |-> checked_matches_count,
     found_together_count |-> found_together_count,
     player1_games_won_count |-> player1_games_won_count,
     found_matches_details |-> found_matches_details]

\* The counters and the result list, with the checked count starting at 1.
InitialCountersFromOne ==
    [checked_matches_count |-> 1,
     found_together_count |-> 0,
     player1_games_won_count |-> 0,
     found_matches_details |-> << >>]

\* let mut found_together_count = 0; ... Vec::new().
InitialCounters ==
    [checked_matches_count |-> 0,
     found_together_count |-> 0,
     player1_games_won_count |-> 0,
     found_matches_details |-> << >>]

\* The found-together increment left out.
count_found_omitted(n) == n

\* found_together_count += 1.
count_found(n) == n + 1

\* The win counter, reading player 2's record.
count_win_player2(n, p1_data, p2_data) == IF p2_data.win THEN n + 1 ELSE n

\* if p1_data.win { player1_games_won_count += 1; }.
count_win(n, p1_data, p2_data) == IF p1_data.win THEN n + 1 ELSE n

\* The body of `if let Some(match_data) = match_data_option`.
OnMatchData(c, match_id_str, info, p1, p2, region) ==
    IF contains_player2(info, p1, p2)
    THEN LET c1 == [c EXCEPT !.found_together_count = count_found(@)]
             link == league_of_graphs_link(match_id_str, region)
             player1_participant == find(info.participants, p1)
             player2_participant == find(info.participants, p2)
         IN  IF player1_participant # None /\ player2_participant # None
             THEN LET p1_data == player1_participant[1]
                      p2_data == player2_participant[1]
                  IN  [c1 EXCEPT
                         !.player1_games_won_count =
                             count_win(@, p1_data, p2_data),
                         !.found_matches_details =
                             push(@, MatchDetails(match_id_str, link,
                                                  p1_data, p2_data))]
             ELSE c1
    ELSE c

\* The else branch with the match counted as found together.
OnMatchAbsentCounted(c) == [c EXCEPT !.found_together_count = @ + 1]

\* The else branch of `if let Some(match_data)`: a warning, nothing else.
OnMatchAbsent(c) == c

\* `?` that also returns early on an absent value.
propagates_absent(resp) == resp.kind # "Some"

\* `.await?`: an Err returns from run_query at once.
propagates(resp) == resp.kind = "Err"

\* ---------------------------------------------------------------- actions

Init ==
    /\ pc = "start"
    /\ \E a \in Arguments :
          /\ user_selected_region = a.user_selected_region
          /\ regional_route = a.regional_route
          /\ number_of_matches = a.number_of_matches
    /\ input = << >>
    /\ parsed = None
    /\ formatted = None
    /\ puuid1 = None
    /\ puuid2 = None
    /\ match_ids = << >>
    /\ idx = 0
    /\ checked_matches_count = 0
    /\ found_together_count = 0
    /\ player1_games_won_count = 0
    /\ found_matches_details = << >>
    /\ result = None
    /\ calls = << >>
    /\ answers = << >>
    /\ fetched = << >>

\* `return Err(..)` or an error propagated by `?`: nothing else changes.
Return(value) ==
    /\ result' = value
    /\ pc' = "done"
    /\ UNCHANGED <<puuid1, puuid2, match_ids, idx, checked_matches_count,
                   found_together_count, player1_games_won_count,
                   found_matches_details, calls>>

\* The loop head that takes the first window id again instead of the next.
IterateStuck(w, i, checked, c) ==
    /\ match_ids' = w
    /\ idx' = 1
    /\ found_together_count' = c.found_together_count
    /\ player1_games_won_count' = c.player1_games_won_count
    /\ found_matches_details' = c.found_matches_details
    /\ IF 1 <= Len(w)
       THEN /\ checked_matches_count' = checked + 1
            /\ calls' = Append(calls, Call("get_match", w[1]))
            /\ pc' = "await_match"
            /\ result' = None
       ELSE /\ checked_matches_count' = checked
            /\ calls' = calls
            /\ pc' = "done"
            /\ result' = ReturnOk(OverallOutput(regional_route, checked, c))

\* The head of `for match_id_str in match_ids` at window position i, with
\* the locals as the previous iteration left them: either the next id is
\* taken, counted and fetched, or the loop ends and the report is returned.
Iterate(w, i, checked, c) ==
    /\ match_ids' = w
    /\ idx' = i
    /\ found_together_count' = c.found_together_count
    /\ player1_games_won_count' = c.player1_games_won_count
    /\ found_matches_details' = c.found_matches_details
    /\ IF i <= Len(w)
       THEN /\ checked_matches_count' = checked + 1
            /\ calls' = Append(calls, Call("get_match", w[i]))
            /\ pc' = "await_match"
            /\ result' = None
       ELSE /\ checked_matches_count' = checked
            /\ calls' = calls
            /\ pc' = "done"
            /\ result' = ReturnOk(OverallOutput(regional_route, checked, c))

\* The entry with player 2 looked up first.
StartWithPlayer2 ==
    /\ pc = "start"
    /\ pc' = "await_account1"
    /\ calls' = Append(calls, Call("get_by_riot_id", Display(Player2RiotId)))
    /\ UNCHANGED <<number_of_matches, parse_vars>>
    /\ UNCHANGED <<user_selected_region, regional_route, puuid1, puuid2,
                   match_ids, idx, checked_matches_count,
                   found_together_count, player1_games_won_count,
                   found_matches_details, result, answers, fetched>>

\* Entry of run_query up to the first await: the lookup of player 1.
Start ==
    /\ pc = "start"
    /\ pc' = "await_account1"
    /\ calls' = Append(calls, Call("get_by_riot_id", Display(Player1RiotId)))
    /\ UNCHANGED <<number_of_matches, parse_vars>>
    /\ UNCHANGED <<user_selected_region, regional_route, puuid1, puuid2,
                   match_ids, idx, checked_matches_count,
                   found_together_count, player1_games_won_count,
                   found_matches_details, result, answers, fetched>>

\* Player 1's lookup returns; on success player 2's lookup is issued.
Account1Returned ==
    /\ pc = "await_account1"
    /\ \E resp \in Account1Responses :
          /\ answers' = Append(answers, resp.kind)
          /\ IF propagates(resp)
                THEN Return(ReturnErr(RiotApiError))
             ELSE IF resp.kind = "Some"
                THEN /\ puuid1' = resp.val
                     /\ calls' = Append(calls, Call("get_by_riot_id",
                                                     Display(Player2RiotId)))
                     /\ pc' = "await_account2"
                     /\ UNCHANGED <<puuid2, match_ids, idx,
                                    checked_matches_count,
                                    found_together_count,
                                    player1_games_won_count,
                                    found_matches_details, result>>
             ELSE Return(ReturnErr(NotFoundError(1, Player1RiotId,
                                                 regional_route)))
    /\ UNCHANGED <<user_selected_region, regional_route, number_of_matches,
                   fetched, parse_vars>>

\* Player 2's lookup returns; on success the window fetch is issued.
Account2Returned ==
    /\ pc = "await_account2"
    /\ \E resp \in Account2Responses :
          /\ answers' = Append(answers, resp.kind)
          /\ IF propagates(resp)
                THEN Return(ReturnErr(RiotApiError))
             ELSE IF resp.kind = "Some"
                THEN /\ puuid2' = resp.val
                     /\ calls' = Append(calls, Call("get_match_ids_by_puuid",
                                              MatchIdsRequest(puuid1[1])))
                     /\ pc' = "await_match_ids"
                     /\ UNCHANGED <<puuid1, match_ids, idx,
                                    checked_matches_count,
                                    found_together_count,
                                    player1_games_won_count,
                                    found_matches_details, result>>
             ELSE Return(ReturnErr(NotFoundError(2, Player2RiotId,
                                                 regional_route)))
    /\ UNCHANGED <<user_selected_region, regional_route, number_of_matches,
                   fetched, parse_vars>>

\* The window fetch returns: the counters are initialised and the loop is
\* entered.
MatchIdsReturned ==
    /\ pc = "await_match_ids"
    /\ \E resp \in MatchIdsResponses :
          /\ answers' = Append(answers, resp.kind)
          /\ IF propagates(resp)
                THEN Return(ReturnErr(RiotApiError))
                ELSE /\ Iterate(resp.val[1], 1,
                                InitialCounters.checked_matches_count,
                                InitialCounters)
                     /\ UNCHANGED <<puuid1, puuid2>>
    /\ UNCHANGED <<user_selected_region, regional_route, number_of_matches,
                   fetched, parse_vars>>

\* One match detail fetch returns: the rest of the loop body runs for
\* match_ids[idx], then the loop head for the next position.
MatchReturned ==
    /\ pc = "await_match"
    /\ \E resp \in MatchResponses :
          /\ fetched' = Append(fetched, Logged(resp))
          /\ IF propagates(resp)
                THEN Return(ReturnErr(RiotApiError))
                ELSE /\ Iterate(match_ids, idx + 1, checked_matches_count,
                                IF resp.kind = "Some"
                                THEN OnMatchData(Locals, match_ids[idx],
                                                 resp.val[1], puuid1[1],
                                                 puuid2[1],
                                                 user_selected_region)
                                ELSE OnMatchAbsent(Locals))
                     /\ UNCHANGED <<puuid1, puuid2>>
    /\ UNCHANGED <<user_selected_region, regional_route, number_of_matches,
                   answers, parse_vars>>

Next ==
    \/ Start
    \/ Account1Returned
    \/ Account2Returned
    \/ MatchIdsReturned
    \/ MatchReturned

Spec == Init /\ [][Next]_vars

\* The run under the claim's assumption that every remote call returns
\* (and the code between two awaits runs): no step stays enabled for ever
\* without being taken.
FairSpec == Init /\ [][Next]_vars /\ WF_vars(Next)

\* run_query is called again after it has returned.  The arguments are new
\* and nothing of the previous call is visible to the new one; the
\* variables that stand for the locals declared at the loop (the counters
\* and the result list) are not touched by the call itself, only by their
\* declarations.
Restart ==
    /\ pc = "done"
    /\ pc' = "start"
    /\ \E a \in Arguments :
          /\ user_selected_region' = a.user_selected_region
          /\ regional_route' = a.regional_route
          /\ number_of_matches' = a.number_of_matches
    /\ puuid1' = None
    /\ puuid2' = None
    /\ match_ids' = << >>
    /\ idx' = 0
    /\ result' = None
    /\ calls' = << >>
    /\ answers' = << >>
    /\ fetched' = << >>
    /\ UNCHANGED <<checked_matches_count, found_together_count,
                   player1_games_won_count, found_matches_details,
                   parse_vars>>

RunsNext ==
    \/ Next
    \/ Restart

\* Any number of runs of run_query, one after the other.
RunsSpec == Init /\ [][RunsNext]_vars

\* ----------------------------------------------------------- RiotId parser

\* The characters of the texts handed to from_str: two ordinary characters
\* and the separator.
Alphabet == {"a", "b", "#"}

\* The texts handed to from_str.
Inputs == SeqUpTo(Alphabet, MaxLen)

\* s.split(sep).collect(): the pieces of s between the occurrences of sep,
\* empty pieces included; a text without sep is one piece.
RECURSIVE split(_, _)
split(s, sep) ==
    LET hits == { i \in DOMAIN s : s[i] = sep }
        first == CHOOSE i \in hits : \A j \in hits : i <= j
    IN  IF hits = {} THEN <<s>>
        ELSE <<SubSeq(s, 1, first - 1)>>
                \o split(SubSeq(s, first + 1, Len(s)), sep)

\* impl FromStr for RiotId: Ok for exactly two pieces, Err otherwise.
from_str(s) ==
    LET parts == split(s, "#")
    IN  IF Len(parts) = 2
        THEN [ok |-> TRUE,
              val |-> Some([game_name |-> parts[1], tag_line |-> parts[2]])]
        ELSE [ok |-> FALSE, val |-> None]

\* A text is about to be parsed; run_query is not running.
ParseInit ==
    /\ pc = "from_str"
    /\ input \in Inputs
    /\ parsed = None
    /\ formatted = None
    /\ user_selected_region = None
    /\ regional_route = "EUROPE"
    /\ number_of_matches = None
    /\ puuid1 = None
    /\ puuid2 = None
    /\ match_ids = << >>
    /\ idx = 0
    /\ checked_matches_count = 0
    /\ found_together_count = 0
    /\ player1_games_won_count = 0
    /\ found_matches_details = << >>
    /\ result = None
    /\ calls = << >>
    /\ answers = << >>
    /\ fetched = << >>

\* The variables of run_query.
query_vars ==
    <<user_selected_region, regional_route, number_of_matches, puuid1,
      puuid2, match_ids, idx, checked_matches_count, found_together_count,
      player1_games_won_count, found_matches_details, result, calls, answers,
      fetched>>

\* RiotId::from_str(input).
FromStr ==
    /\ pc = "from_str"
    /\ parsed' = Some(from_str(input))
    /\ pc' = IF from_str(input).ok THEN "parsed" ELSE "rejected"
    /\ UNCHANGED <<input, formatted, query_vars>>

\* The parsed RiotId is formatted with Display.
Format ==
    /\ pc = "parsed"
    /\ formatted' = Some(Display(parsed[1].val[1]))
    /\ pc' = "formatted"
    /\ UNCHANGED <<input, parsed, query_vars>>

ParseNext ==
    \/ FromStr
    \/ Format

ParseSpec == ParseInit /\ [][ParseNext]_vars

\* ------------------------------------------------- vocabulary of the claims

\* run_query has returned a report.
Reported == pc = "done" /\ result # None /\ result[1].ok

\* run_query has returned an error.
Failed == pc = "done" /\ result # None /\ ~result[1].ok

\* The parts of a returned report.
Summary == result[1].output[1].query_summary

FoundMatches == result[1].output[1].found_matches

\* Both identities resolved and the window fetch returned a window.
WindowFetched == Len(answers) = 3 /\ answers[3] = "Some"

\* Window positions whose detail fetch was issued (ids actually iterated).
Iterated == { i \in DOMAIN calls : calls[i].op = "get_match" }

\* Window positions whose detail fetch returned a match record.
Fetchable == { i \in DOMAIN fetched : fetched[i].kind = "Some" }

\* Fetchable positions whose record has player 2's handle among its
\* participants.
WithPlayer2 == { i \in Fetchable : puuid2[1] \in fetched[i].puuids }

\* The last detail fetch answered in a step.
Answered == Len(fetched') = Len(fetched) + 1

LastFetched == fetched'[Len(fetched')]

\* ------------------------------------------------------------------ claims

\* C1: in every returned summary the checked count is the number of window
\* ids actually iterated, the found-together count is exactly K, the number
\* of fetchable matches that have player 2's handle among their
\* participants, and found-together <= checked <= N, the window length.
C1_SummaryCounts ==
    Reported =>
        /\ Summary.checked_matches_count = Cardinality(Iterated)
        /\ Summary.matches_played_together_count = Cardinality(WithPlayer2)
        /\ Summary.matches_played_together_count
              <= Summary.checked_matches_count
        /\ Summary.checked_matches_count <= Len(match_ids)

\* A report over a window of two ids, one of them on record, with player 2
\* in it.
C1_Witness ==
    /\ Reported
    /\ Len(match_ids) = 2
    /\ Cardinality(Fetchable) = 1
    /\ Cardinality(WithPlayer2) = 1

\* C2: a window id whose detail fetch returns "not found" adds nothing to
\* found_matches and does not raise the found-together count, and it is
\* counted as checked: the checked count covers it when its answer arrives,
\* and a returned summary counts every answered fetch, absent ones too.
C2_AbsentMatchOnlyChecked ==
    /\ [][(Answered /\ LastFetched.kind = "None") =>
            /\ found_matches_details' = found_matches_details
            /\ found_together_count' = found_together_count
            /\ checked_matches_count = Len(fetched')]_vars
    /\ [](Reported => Summary.checked_matches_count = Len(fetched))
    /\ [](Reported => Len(FoundMatches) <= Cardinality(Fetchable))

\* A report of a run one of whose detail fetches returned "not found".
C2_Witness ==
    /\ Reported
    /\ \E i \in DOMAIN fetched : fetched[i].kind = "None"

\* C3 as stated: once the window is fetched, the run returns a report
\* whatever the detail fetches return, a failed remote call included.
C3_AnyDetailOutcomeReports == (pc = "done" /\ WindowFetched) => Reported

\* C3, amended: a detail fetch that returns a record or "not found" never
\* ends the run: the next window id is fetched or, after the last id, the
\* report is returned.  A detail fetch whose remote call fails ends the run
\* with that error and no report.
C3_AbsentNeverAborts ==
    [][(pc = "await_match" /\ Answered) =>
        IF LastFetched.kind = "Err"
        THEN /\ pc' = "done"
             /\ ~result'[1].ok
             /\ result'[1].output = None
        ELSE IF idx < Len(match_ids)
        THEN /\ pc' = "await_match"
             /\ result' = None
             /\ idx' = idx + 1
             /\ calls' = Append(calls, Call("get_match", match_ids[idx + 1]))
        ELSE /\ pc' = "done"
             /\ result'[1].ok]_vars

\* A report of a run in which a "not found" answer was followed by another
\* detail fetch.
C3_Witness ==
    /\ Reported
    /\ \E i \in DOMAIN fetched : fetched[i].kind = "None" /\ i < Len(fetched)

\* The error value a returned error carries.
ReturnedError == result[1].error[1]

\* C4: a lookup that returns "not found" or fails ends the run with an
\* error and no report; a "not found" error names the player whose lookup
\* it was and the regional route; the failed lookup is the last remote call
\* of the run (player 2 is not looked up after player 1 fails, and no
\* window or detail fetch follows).
C4_LookupFailureIsFatal ==
    \A n \in 1..2 :
        (Len(answers) >= n /\ answers[n] # "Some") =>
            /\ Failed
            /\ result[1].output = None
            /\ Len(answers) = n
            /\ Len(calls) = n
            /\ \A i \in 1..n : calls[i].op = "get_by_riot_id"
            /\ fetched = << >>
            /\ answers[n] = "None" =>
                  /\ ReturnedError.kind = "NotFound"
                  /\ ReturnedError.player = n
                  /\ ReturnedError.riot_id =
                        Display(IF n = 1 THEN Player1RiotId
                                ELSE Player2RiotId)
                  /\ ReturnedError.regional_route = regional_route
            /\ answers[n] = "Err" => ReturnedError.kind = "RiotApiError"

\* Player 1 resolved and player 2's lookup returned "not found".
C4_Witness == answers = <<"Some", "None">> /\ pc = "done"

\* C5: an empty window ends the run with a report whose three counts are
\* zero and whose found_matches is empty, and no detail fetch is issued.
C5_EmptyWindow ==
    (WindowFetched /\ match_ids = << >>) =>
        /\ Reported
        /\ Summary.checked_matches_count = 0
        /\ Summary.matches_played_together_count = 0
        /\ Summary.player1_wins_together_count = 0
        /\ FoundMatches = << >>
        /\ Iterated = {}

\* The window fetch returned the empty window.
C5_Witness == WindowFetched /\ match_ids = << >> /\ pc = "done"

\* C6: the player-1-wins count never exceeds the found-together count,
\* during the run and in the returned summary.
C6_WinsAtMostFound ==
    /\ player1_games_won_count <= found_together_count
    /\ Reported =>
          Summary.player1_wins_together_count
            <= Summary.matches_played_together_count

\* A report that counts a win of player 1.
C6_Witness == Reported /\ Summary.player1_wins_together_count >= 1

\* C7 as stated: a match that has player 2's handle but in which a
\* player's participant record cannot be located leaves the found-together
\* count unchanged, so that the summary's found-together count is the
\* number of entries of found_matches.
C7_FoundCountIsNumberOfEntries ==
    Reported => Summary.matches_played_together_count = Len(FoundMatches)

\* A step that emits a CorrelationResult: the entry appended to
\* found_matches by the step.
Emitted == Len(found_matches_details') = Len(found_matches_details) + 1

LastEmitted == found_matches_details'[Len(found_matches_details')]

\* The entries of a result list whose player 1 outcome is "Victory".
Victories(list) ==
    { i \in DOMAIN list : list[i].player1_details.outcome = "Victory" }

\* C8: when a CorrelationResult is emitted for a match in which player 1's
\* participant record has win = true, its player 1 outcome is "Victory" and
\* the win counter grows by exactly 1; with win = false the outcome is
\* "Defeat" and the win counter does not change.  The final
\* player1_wins_together_count is the number of "Victory" entries.
C8_VictoryCountsOnce ==
    /\ [][(Answered /\ Emitted) =>
            IF puuid1[1] \in LastFetched.winners
            THEN /\ LastEmitted.player1_details.outcome = "Victory"
                 /\ player1_games_won_count' = player1_games_won_count + 1
            ELSE /\ LastEmitted.player1_details.outcome = "Defeat"
                 /\ player1_games_won_count' = player1_games_won_count]_vars
    /\ [](Reported =>
            Summary.player1_wins_together_count
              = Cardinality(Victories(FoundMatches)))

\* A report with an entry player 1 won while player 2's record in that
\* match shows a defeat.
C8_Witness ==
    /\ Reported
    /\ \E i \in DOMAIN FoundMatches :
          /\ FoundMatches[i].player1_details.outcome = "Victory"
          /\ FoundMatches[i].player2_details.outcome = "Defeat"

\* a is b with some elements left out, the rest in b's order.
RECURSIVE IsSubSeq(_, _)
IsSubSeq(a, b) ==
    IF a = << >> THEN TRUE
    ELSE IF b = << >> THEN FALSE
    ELSE IF Head(a) = Head(b) THEN IsSubSeq(Tail(a), Tail(b))
    ELSE IsSubSeq(a, Tail(b))

\* The ids of the first n window positions at which both players' records
\* were in the fetched match, in window order.
RECURSIVE TogetherIds(_)
TogetherIds(n) ==
    IF n = 0 THEN << >>
    ELSE IF /\ fetched[n].kind = "Some"
            /\ {puuid1[1], puuid2[1]} \subseteq fetched[n].puuids
         THEN Append(TogetherIds(n - 1), match_ids[n])
         ELSE TogetherIds(n - 1)

\* The match ids of a result list, in list order.
IdsOf(list) == [i \in DOMAIN list |-> list[i].match_id]

\* C9: found_matches keeps the window's order: at any time its match ids
\* are those of the window positions processed so far at which both
\* players were found, in window order, one entry per such position; so
\* it is an order-preserving sub-sequence of the window.
C9_WindowOrder ==
    /\ IdsOf(found_matches_details) = TogetherIds(Len(fetched))
    /\ IsSubSeq(IdsOf(found_matches_details), match_ids)
    /\ Len(found_matches_details) <= Len(fetched)
    /\ Reported => FoundMatches = found_matches_details

\* A report with two entries for two different match ids.
C9_Witness ==
    /\ Reported
    /\ Len(FoundMatches) = 2
    /\ FoundMatches[1].match_id # FoundMatches[2].match_id

\* The lowercase of the letters region names are written in.
Lower(ch) ==
    CASE ch = "A" -> "a" [] ch = "B" -> "b" [] ch = "C" -> "c"
      [] ch = "E" -> "e" [] ch = "J" -> "j" [] ch = "K" -> "k"
      [] ch = "L" -> "l" [] ch = "M" -> "m" [] ch = "N" -> "n"
      [] ch = "O" -> "o" [] ch = "P" -> "p" [] ch = "R" -> "r"
      [] ch = "S" -> "s" [] ch = "T" -> "t" [] ch = "U" -> "u"
      [] ch = "V" -> "v" [] ch = "W" -> "w"

\* The region code of a link: the selected region's name in lowercase, or
\* "eune" when no region was selected.
LinkCode ==
    IF user_selected_region = None THEN <<"e","u","n","e">>
    ELSE [i \in DOMAIN user_selected_region[1] |->
            Lower(user_selected_region[1][i])]

\* The positions of the separator in a match id.
Separators(id) == { i \in DOMAIN id : id[i] = "_" }

\* The link the claim gives a match id that has a separator.
LinkFor(id) ==
    LET first == CHOOSE i \in Separators(id) :
                    \A j \in Separators(id) : i <= j
    IN  LogBaseUrl \o LinkCode \o <<"/">> \o SubSeq(id, first + 1, Len(id))

\* "https://www.leagueofgraphs.com/match/euw/12345".
ExampleLink ==
    <<"h","t","t","p","s",":","/","/","w","w","w",".","l","e","a","g","u",
      "e","o","f","g","r","a","p","h","s",".","c","o","m","/","m","a","t",
      "c","h","/","e","u","w","/","1","2","3","4","5">>

ExampleId == <<"E","U","W","1","_","1","2","3","4","5">>

\* C10: every emitted entry whose match id has a '_' carries the link
\* <base>/<code>/<suffix>, the suffix being everything after the first '_'
\* and the code the lowercase name of the selected region ("eune" when none
\* is selected); "EUW1_12345" with region EUW gives
\* "https://www.leagueofgraphs.com/match/euw/12345"; an entry whose match id
\* has no '_' is emitted without a link.  The code of every region is its
\* name in lowercase.
C10_Link ==
    /\ \A i \in DOMAIN found_matches_details :
          LET e == found_matches_details[i]
          IN  /\ Separators(e.match_id) # {} =>
                    e.league_of_graphs_link = Some(LinkFor(e.match_id))
              /\ Separators(e.match_id) = {} =>
                    e.league_of_graphs_link = None
              /\ (/\ e.match_id = ExampleId
                  /\ user_selected_region = Some(<<"E","U","W">>)) =>
                    e.league_of_graphs_link = Some(ExampleLink)
    /\ \A r \in UserFacingRegion :
          to_log_string(r) = [i \in DOMAIN r |-> Lower(r[i])]
    /\ Reported => FoundMatches = found_matches_details

\* A report, for the selected region EUW, with an entry for "EUW1_12345"
\* and an entry without a link.
C10_Witness ==
    /\ Reported
    /\ user_selected_region = Some(<<"E","U","W">>)
    /\ \E i, j \in DOMAIN FoundMatches :
          /\ FoundMatches[i].match_id = ExampleId
          /\ FoundMatches[i].league_of_graphs_link # None
          /\ FoundMatches[j].league_of_graphs_link = None

\* The positions of the separator '#' in the parsed text.
Hashes == { i \in DOMAIN input : input[i] = "#" }

\* C11: for every text from_str accepts, formatting the parsed RiotId with
\* Display gives the text back.
C11_RoundTrip == formatted # None => formatted[1] = input

\* An accepted text with different name and tag has been formatted.
C11_Witness == formatted # None /\ input = <<"a", "#", "b">>

\* C12 as stated: from_str accepts a text exactly if it has one '#' with a
\* non-empty game name before it and a non-empty tag line after it, so an
\* accepted RiotId has both fields non-empty; any other text is rejected.
C12_AcceptsOnlyWellFormed ==
    parsed # None =>
        /\ parsed[1].ok <=>
              /\ Cardinality(Hashes) = 1
              /\ input[1] # "#"
              /\ input[Len(input)] # "#"
        /\ parsed[1].ok =>
              /\ parsed[1].val[1].game_name # << >>
              /\ parsed[1].val[1].tag_line # << >>
        /\ ~parsed[1].ok => parsed[1].val = None

\* The window requests issued so far.
WindowRequests ==
    { i \in DOMAIN calls : calls[i].op = "get_match_ids_by_puuid" }

\* C13 as stated: the window request carries the count 100 when no limit
\* was supplied and the limit n when one was.
C13_RequestCount ==
    \A i \in WindowRequests :
        calls[i].arg.count = IF number_of_matches = None THEN Some(100)
                             ELSE number_of_matches

\* Remote calls issued and not yet answered.
Outstanding == Len(calls) - (Len(answers) + Len(fetched))

\* C14: at most one remote call is outstanding; the calls are, in order,
\* player 1's lookup, player 2's lookup, the window fetch and the detail
\* fetches of the window ids in window order, one per window position; a
\* call is issued only once every earlier call has been answered, the
\* earlier ones successfully.
C14_SequentialOrderedCalls ==
    /\ Outstanding \in {0, 1}
    /\ Outstanding = 1 <=> pc \in {"await_account1", "await_account2",
                                    "await_match_ids", "await_match"}
    /\ Len(calls) <= 3 + Len(match_ids)
    /\ \A i \in DOMAIN calls :
          /\ i = 1 => /\ calls[i].op = "get_by_riot_id"
                      /\ calls[i].arg = Display(Player1RiotId)
          /\ i = 2 => /\ calls[i].op = "get_by_riot_id"
                      /\ calls[i].arg = Display(Player2RiotId)
                      /\ answers[1] = "Some"
          /\ i = 3 => /\ calls[i].op = "get_match_ids_by_puuid"
                      /\ calls[i].arg.puuid = puuid1[1]
                      /\ answers[2] = "Some"
          /\ i > 3 => /\ calls[i].op = "get_match"
                      /\ calls[i].arg = match_ids[i - 3]
                      /\ answers[3] = "Some"
                      /\ Len(fetched) >= i - 4
                      /\ \A k \in 1..(i - 4) : fetched[k].kind # "Err"

\* A report after five calls, the last two for different match ids.
C14_Witness ==
    /\ Reported
    /\ Len(calls) = 5
    /\ calls[4].arg # calls[5].arg

\* C15: when every remote call returns, the run ends, with a report or an
\* error; it never issues more detail fetches than the window has ids, one
\* per id counted as checked, and never looks past the window.
C15_Terminates ==
    /\ <>(pc = "done")
    /\ [](pc = "done" => result # None)
    /\ [](Cardinality(Iterated) <= Len(match_ids))
    /\ [](Cardinality(Iterated) = checked_matches_count)
    /\ [](idx <= Len(match_ids) + 1)

\* A run over a window of two ids has ended after two detail fetches.
C15_Witness ==
    /\ pc = "done"
    /\ Len(match_ids) = 2
    /\ Len(fetched) = 2
    /\ Cardinality(Iterated) = 2

\* The three counters.
Counters ==
    <<checked_matches_count, found_together_count, player1_games_won_count>>

\* C16: in every run the found-together and the win counter start at zero
\* and the checked counter at zero plus one for the first window id, whatever
\* an earlier run left; while the window is processed each counter stays or
\* grows by 1 per step; no other step changes them; and a report's counts
\* are those of its own run's fetches.
C16_CountersPerRun ==
    /\ [][IF pc = "await_match_ids"
           THEN \/ Counters' = Counters /\ pc' = "done" /\ ~result'[1].ok
                \/ /\ found_together_count' = 0
                   /\ player1_games_won_count' = 0
                   /\ found_matches_details' = << >>
                   /\ checked_matches_count'
                        = IF match_ids' = << >> THEN 0 ELSE 1
           ELSE IF pc = "await_match"
           THEN \A k \in 1..3 :
                    Counters'[k] = Counters[k] \/ Counters'[k] = Counters[k] + 1
           ELSE Counters' = Counters]_vars
    /\ [](Reported =>
            /\ Summary.checked_matches_count = Cardinality(Iterated)
            /\ Summary.matches_played_together_count
                 = Cardinality(WithPlayer2)
            /\ Summary.player1_wins_together_count
                 = Cardinality(Victories(FoundMatches))
            /\ Len(FoundMatches) <= Len(fetched))

\* A later run is about to declare its counters while an earlier run's
\* counts are still around.
C16_Witness ==
    /\ pc = "await_match_ids"
    /\ checked_matches_count >= 1
    /\ found_together_count >= 1
    /\ player1_games_won_count >= 1

====
